---- MODULE Spec2Model ----
(***************************************************************************)
(* Model of the session controller useSocketRun (frontend/src/lib) of      *)
(* mine_modder: the hook's state, its two intents (startRun, sendChat),    *)
(* the six inbound socket handlers and the effect cleanup.                 *)
(*                                                                         *)
(* JavaScript strings are sequences of one-character strings, so that      *)
(* trim(), startsWith() and concatenation are computed, not assumed.       *)
(* JavaScript values that arrive in payloads (type any) are tagged records *)
(* [t |-> type, v |-> content].                                            *)
(***************************************************************************)
EXTENDS Integers, Sequences, FiniteSets

(***************************************************************************)
(* Bounds of the model.                                                    *)
(***************************************************************************)
\* entries (ChatMessages created, plus lines in the progress log) after which the
\* model stops taking operations that would add another
MaxLog == 2

\* the same, where a second run is followed: two prompts and a follow-up
MaxRunLog == 3

(***************************************************************************)
(* JavaScript values.                                                      *)
(***************************************************************************)
Undefined == [t |-> "undefined", v |-> <<>>]
Null == [t |-> "null", v |-> <<>>]
Str(s) == [t |-> "string", v |-> s]
Num(n) == [t |-> "number", v |-> <<n>>]
Arr(a) == [t |-> "array", v |-> a]
EmptyObject == [t |-> "object", v |-> <<>>]

\* typeof x === "string"
IsString(x) == x.t = "string"

\* Array.isArray(x)
IsArray(x) == x.t = "array"

\* x ?? d
Coalesce(x, d) == IF x.t \in {"undefined", "null"} THEN d ELSE x

\* ToBoolean(x): what `if (x)`, `x || y` and `!x` test
Truthy(x) ==
    CASE x.t = "undefined" -> FALSE
      [] x.t = "null" -> FALSE
      [] x.t = "string" -> x.v # <<>>
      [] x.t = "number" -> x.v[1] # 0
      [] OTHER -> TRUE

\* x || y
OrElse(x, y) == IF Truthy(x) THEN x ELSE y

(***************************************************************************)
(* Strings.                                                                *)
(***************************************************************************)
WhiteSpace == {" ", "\t", "\n"}

RECURSIVE TrimStart(_)
TrimStart(s) ==
    IF s # <<>> /\ Head(s) \in WhiteSpace THEN TrimStart(Tail(s)) ELSE s

RECURSIVE TrimEnd(_)
TrimEnd(s) ==
    IF s # <<>> /\ s[Len(s)] \in WhiteSpace
    THEN TrimEnd(SubSeq(s, 1, Len(s) - 1))
    ELSE s

\* String.prototype.trim
Trim(s) == TrimEnd(TrimStart(s))

\* String.prototype.startsWith
StartsWith(s, prefix) ==
    /\ Len(s) >= Len(prefix)
    /\ SubSeq(s, 1, Len(prefix)) = prefix

Digit(d) == CASE d = 0 -> "0" [] d = 1 -> "1" [] d = 2 -> "2" [] d = 3 -> "3"
              [] d = 4 -> "4" [] d = 5 -> "5" [] d = 6 -> "6" [] d = 7 -> "7"
              [] d = 8 -> "8" [] d = 9 -> "9"

\* Number.prototype.toString of a natural number
RECURSIVE NatToString(_)
NatToString(n) ==
    IF n < 10 THEN <<Digit(n)>> ELSE NatToString(n \div 10) \o <<Digit(n % 10)>>

\* JSON.stringify of the values the payload pools hold
RECURSIVE JSONStringify(_)
RECURSIVE JSONJoin(_)
JSONJoin(a) ==
    IF a = <<>> THEN <<>>
    ELSE IF Len(a) = 1 THEN JSONStringify(a[1])
    ELSE JSONStringify(a[1]) \o <<",">> \o JSONJoin(Tail(a))
JSONStringify(x) ==
    CASE x.t = "string" -> <<"\"">> \o x.v \o <<"\"">>
      [] x.t = "number" -> NatToString(x.v[1])
      [] x.t = "null" -> <<"n", "u", "l", "l">>
      [] x.t = "array" -> <<"[">> \o JSONJoin(x.v) \o <<"]">>
      [] x.t = "object" -> <<"{", "}">>

\* ToString(x) as a template literal `${x}` applies it
TemplateString(x) ==
    CASE x.t = "string" -> x.v
      [] x.t = "number" -> NatToString(x.v[1])
      [] x.t = "object" ->
            <<"[", "o", "b", "j", "e", "c", "t", " ", "O", "b", "j", "e", "c", "t", "]">>

(***************************************************************************)
(* Program constants.                                                      *)
(***************************************************************************)
BACKEND_URL ==
    <<"h", "t", "t", "p", ":", "/", "/", "l", "o", "c", "a", "l", "h", "o", "s", "t",
      ":", "5", "0", "0", "1">>

UnknownError == <<"U", "n", "k", "n", "o", "w", "n", " ", "e", "r", "r", "o", "r">>

Working == <<"W", "o", "r", "k", "i", "n", "g", ".", ".", ".">>

NodePrefix == <<"n", "o", "d", "e", ":">>

EventNames ==
    {"connected", "error", "run_started", "progress", "mod_ready", "chat_response"}

(***************************************************************************)
(* State.                                                                  *)
(***************************************************************************)
VARIABLES
    mounted,            \* the component that called the hook is mounted
    socketRef,          \* socketRef.current: "socket" or "null"
    socketOpen,         \* the socket made by io() has not been disconnect()ed
    handlers,           \* events with a listener registered by socket.on
    connected,
    stage,
    runId,
    progressMessages,
    messages,
    summary,
    downloadUrl,
    error,
    awaitingUser,
    sendChatRunId,      \* the runId the current sendChat closure has captured
    content,            \* StageContainer's memoized content, as last computed
    opens,              \* the calls of io(BACKEND_URL, ...) so far
    emitted,            \* the calls of socket.emit, in order
    nextId,             \* ids handed out by crypto.randomUUID so far
    last,               \* history: the operation taken last, as SpecTraced records it
    recent,             \* history: the latest operation that sets awaitingUser
    runIdSet,           \* history: "norun", or has the run got its id: "unset", "set"
    progressSeen,       \* history: payloads of the progress events handled since the
                        \* log was last cleared
    room                \* the entries the model lets the session make: MaxLog or
                        \* MaxRunLog, as the specification sets it

session ==
    <<connected, stage, runId, progressMessages, messages, summary, downloadUrl,
      error, awaitingUser>>

history == <<last, recent, runIdSet, progressSeen, room>>

vars ==
    <<mounted, socketRef, socketOpen, handlers, connected, stage, runId,
      progressMessages, messages, summary, downloadUrl, error, awaitingUser,
      sendChatRunId, content, opens, emitted, nextId, history>>

\* what StageContainer's useMemo returns: the form of the stage, and for the result
\* view the isBusy prop and the runId of the sendChat that handleSendMessage calls
Content(st, aw, rid) == [stage |-> st, isBusy |-> ~aw, runId |-> rid]

\* the hook after its first render and its effect
Mount ==
    /\ mounted = TRUE
    /\ socketRef = "socket"
    /\ socketOpen = TRUE
    /\ handlers = EventNames
    /\ connected = FALSE
    /\ stage = "prompt"
    /\ runId = Null
    /\ progressMessages = <<>>
    /\ messages = <<>>
    /\ summary = <<>>
    /\ downloadUrl = <<>>
    /\ error = Null
    /\ awaitingUser = FALSE
    /\ sendChatRunId = Null
    /\ content = Content("prompt", FALSE, Null)
    /\ opens = 1
    /\ emitted = <<>>
    /\ nextId = 0
    /\ last = "mount"
    /\ recent = "mount"
    /\ runIdSet = "norun"
    /\ progressSeen = <<>>

Init == Mount /\ room = MaxLog

\* the bound of the model: there is room for one more entry
LogRoom == nextId + Len(progressMessages) < room

(***************************************************************************)
(* React: a state setter called after the component has unmounted is       *)
(* dropped; while mounted, the hook re-renders after every handler, and    *)
(* useCallback(..., [runId]) then hands out a sendChat that has captured   *)
(* the runId of that render.  StageContainer renders with the hook; its    *)
(* useMemo computes the content again only when stage, progressMessages,   *)
(* messages or awaitingUser has changed, and otherwise keeps the content   *)
(* of an earlier render, with the handlers that render had made.           *)
(***************************************************************************)
SendChatDeps(rid) == rid

\* the dependency list of the content: [stage, progressMessages, messages, awaitingUser]
ContentDeps(st, pm, msgs, aw) == <<st, pm, msgs, aw>>

Commit(c, st, rid, pm, msgs, sum, dl, err, aw) ==
    IF mounted
    THEN /\ connected' = c
         /\ stage' = st
         /\ runId' = rid
         /\ progressMessages' = pm
         /\ messages' = msgs
         /\ summary' = sum
         /\ downloadUrl' = dl
         /\ error' = err
         /\ awaitingUser' = aw
         /\ sendChatRunId' = SendChatDeps(rid)
         /\ content' = IF ContentDeps(st, pm, msgs, aw)
                            = ContentDeps(stage, progressMessages, messages, awaitingUser)
                        THEN content
                        ELSE Content(st, aw, SendChatDeps(rid))
    ELSE UNCHANGED <<connected, stage, runId, progressMessages, messages, summary,
                     downloadUrl, error, awaitingUser, sendChatRunId, content>>

(***************************************************************************)
(* Intents.                                                                *)
(***************************************************************************)
\* mutant: the guard tests the raw string, without trim()
IsBlankEmptyOnly(s) == s = <<>>

\* !s.trim()
IsBlank(s) == Trim(s) = <<>>

UserMessage(id, text) ==
    [id |-> id, role |-> "user", text |-> text, downloadUrl |-> Undefined]

\* mutant: the prompt is stored trimmed
StartRunMessageTrimmed(id, prompt) == UserMessage(id, Trim(prompt))

StartRunMessage(id, prompt) == UserMessage(id, prompt)

StartRunPayload(prompt, mcVersion, author) ==
    [prompt |-> prompt, author |-> author, mc_version |-> mcVersion]

\* mutant: nothing is emitted until the connected event has come in
EmitWhenConnected(event, payload) ==
    IF socketRef = "socket" /\ connected
    THEN emitted' = Append(emitted, [event |-> event, payload |-> payload])
    ELSE UNCHANGED emitted

\* mutant: the intents keep the socket they were made with and emit on it
EmitOnKeptSocket(event, payload) ==
    emitted' = Append(emitted, [event |-> event, payload |-> payload])

\* socketRef.current?.emit(event, payload)
Emit(event, payload) ==
    IF socketRef = "socket"
    THEN emitted' = Append(emitted, [event |-> event, payload |-> payload])
    ELSE UNCHANGED emitted

\* mutant: a new run forgets the id of the run before
startRunResetsRunId(prompt, mcVersion, author) ==
    /\ UNCHANGED <<mounted, socketRef, socketOpen, handlers, opens>>
    /\ IF IsBlank(prompt)
       THEN UNCHANGED <<connected, stage, runId, progressMessages, messages, summary,
                        downloadUrl, error, awaitingUser, sendChatRunId, content,
                        emitted, nextId>>
       ELSE /\ LogRoom
            /\ nextId' = nextId + 1
            /\ Commit(connected, "result", Null, <<>>,
                      <<StartRunMessage(nextId + 1, prompt)>>, <<>>, <<>>, Null, FALSE)
            /\ Emit("start_run", StartRunPayload(prompt, mcVersion, author))

startRun(prompt, mcVersion, author) ==
    /\ UNCHANGED <<mounted, socketRef, socketOpen, handlers, opens>>
    /\ IF IsBlank(prompt)
       THEN UNCHANGED <<connected, stage, runId, progressMessages, messages, summary,
                        downloadUrl, error, awaitingUser, sendChatRunId, content,
                        emitted, nextId>>
       ELSE /\ LogRoom
            /\ nextId' = nextId + 1
            /\ Commit(connected, "result", runId, <<>>,
                      <<StartRunMessage(nextId + 1, prompt)>>, <<>>, <<>>, Null, FALSE)
            /\ Emit("start_run", StartRunPayload(prompt, mcVersion, author))

\* mutant: the message is sent as typed
SendChatTextRaw(message) == message

SendChatText(message) == Trim(message)

\* mutant: the guard on runId is missing
CanEmitChatAlways(rid) == TRUE

\* if (!runId) return;  with the runId of the closure
CanEmitChat(rid) == Truthy(rid)

\* sendChat as one render made it: rid is the runId that render's closure captured
sendChatClosure(rid, message) ==
    /\ UNCHANGED <<mounted, socketRef, socketOpen, handlers, opens>>
    /\ LET text == SendChatText(message) IN
       IF text = <<>>
       THEN UNCHANGED <<connected, stage, runId, progressMessages, messages, summary,
                        downloadUrl, error, awaitingUser, sendChatRunId, content,
                        emitted, nextId>>
       ELSE /\ LogRoom
            /\ nextId' = nextId + 1
            /\ Commit(connected, stage, runId, <<>>,
                      Append(messages, UserMessage(nextId + 1, text)), summary,
                      downloadUrl, error, FALSE)
            /\ IF CanEmitChat(rid)
               THEN Emit("chat", [run_id |-> rid, message |-> text])
               ELSE UNCHANGED emitted

\* the sendChat the hook returns from its latest render
sendChat(message) == sendChatClosure(sendChatRunId, message)

(***************************************************************************)
(* Inbound handlers.  A payload is a record of its fields; a field the     *)
(* server did not send is Undefined (payload?.x of a missing payload is    *)
(* undefined as well).                                                     *)
(***************************************************************************)
AgentMessage(id, text, dl) ==
    [id |-> id, role |-> "agent", text |-> text, downloadUrl |-> dl]

\* appendAgent: typeof text === "string" ? text : JSON.stringify(text ?? {})
AgentText(text) ==
    IF IsString(text) THEN text.v ELSE JSONStringify(Coalesce(text, EmptyObject))

\* mutant: the agent's message is put in front of the log
appendAgentInFront(msgs, id, text, dl) == <<AgentMessage(id, AgentText(text), dl)>> \o msgs

appendAgent(msgs, id, text, dl) == Append(msgs, AgentMessage(id, AgentText(text), dl))

onConnected(payload) ==
    /\ Commit(TRUE, stage, runId, progressMessages, messages, summary, downloadUrl,
              error, awaitingUser)
    /\ UNCHANGED nextId

\* mutant: payload?.message || "Unknown error", without the typeof test
ErrorTextTruthy(payload) == OrElse(payload.message, Str(UnknownError))

ErrorText(payload) ==
    IF IsString(payload.message) THEN payload.message ELSE Str(UnknownError)

\* mutant: an error also sends the session back to the prompt form
onErrorBackToPrompt(payload) ==
    /\ Commit(connected, "prompt", runId, progressMessages, messages, summary,
              downloadUrl, ErrorText(payload), awaitingUser)
    /\ UNCHANGED nextId

onError(payload) ==
    /\ Commit(connected, stage, runId, progressMessages, messages, summary,
              downloadUrl, ErrorText(payload), awaitingUser)
    /\ UNCHANGED nextId

\* mutant: payload?.run_id ?? null, which keeps an empty run_id
RunIdOfNullish(payload) == Coalesce(payload.run_id, Null)

\* payload?.run_id || null
RunIdOf(payload) == OrElse(payload.run_id, Null)

\* mutant: the acknowledgment of a run is taken as one of the connection too
onRunStartedConnects(payload) ==
    /\ Commit(TRUE, stage, RunIdOf(payload), progressMessages, messages, summary,
              downloadUrl, error, awaitingUser)
    /\ UNCHANGED nextId

onRunStarted(payload) ==
    /\ Commit(connected, stage, RunIdOf(payload), progressMessages, messages, summary,
              downloadUrl, error, awaitingUser)
    /\ UNCHANGED nextId

\* lines.find((l) => l.startsWith("node:")): the first match, "none", or "throws"
\* when an element that is not a string is reached first (l.startsWith is then
\* not a function and the call raises a TypeError)
RECURSIVE FindNodeLine(_)
FindNodeLine(lines) ==
    IF lines = <<>> THEN [kind |-> "none", v |-> <<>>]
    ELSE IF ~IsString(Head(lines)) THEN [kind |-> "throws", v |-> <<>>]
    ELSE IF StartsWith(Head(lines).v, NodePrefix) THEN [kind |-> "found", v |-> Head(lines).v]
    ELSE FindNodeLine(Tail(lines))

\* lines[0] || "Working..."
FirstLineOrWorking(lines) ==
    IF lines # <<>> /\ Truthy(lines[1]) THEN lines[1].v ELSE Working

\* mutant: the snapshot is looked at before the node
ReadableSnapshotFirst(nodeLine, lines) ==
    LET f == FindNodeLine(lines) IN
    CASE f.kind = "throws" -> [throws |-> TRUE, line |-> <<>>]
      [] f.kind = "found" -> [throws |-> FALSE, line |-> f.v]
      [] f.kind = "none" ->
            IF lines # <<>> /\ Truthy(lines[1])
            THEN [throws |-> FALSE, line |-> lines[1].v]
            ELSE IF Truthy(nodeLine) THEN [throws |-> FALSE, line |-> nodeLine.v]
            ELSE [throws |-> FALSE, line |-> Working]

\* nodeLine || (lines.find(...) || lines[0] || "Working...")
Readable(nodeLine, lines) ==
    IF Truthy(nodeLine) THEN [throws |-> FALSE, line |-> nodeLine.v]
    ELSE LET f == FindNodeLine(lines) IN
         CASE f.kind = "throws" -> [throws |-> TRUE, line |-> <<>>]
           [] f.kind = "found" -> [throws |-> FALSE, line |-> f.v]
           [] f.kind = "none" -> [throws |-> FALSE, line |-> FirstLineOrWorking(lines)]

\* the line onProgress appends, or throws when the handler raises before appending
ProgressLine(payload) ==
    LET message == IF IsString(payload.message) THEN payload.message ELSE Undefined
        lines == IF IsArray(payload.snapshot) THEN payload.snapshot.v ELSE <<>>
        nodeLine == IF IsString(payload.node) THEN payload.node ELSE Undefined
    IN  IF Truthy(message) /\ Trim(message.v) # <<>>
        THEN [throws |-> FALSE, line |-> message.v]
        ELSE Readable(nodeLine, lines)

onProgress(payload) ==
    /\ LogRoom
    /\ LET r == ProgressLine(payload) IN
       Commit(connected, stage, runId,
              IF r.throws THEN progressMessages ELSE Append(progressMessages, r.line),
              messages, summary, downloadUrl, error, FALSE)
    /\ UNCHANGED nextId

\* typeof sum === "string" ? sum : JSON.stringify(sum ?? {})
SummaryText(sum) ==
    IF IsString(sum) THEN sum.v ELSE JSONStringify(Coalesce(sum, EmptyObject))

\* mutant: the server's relative path is used as it came
FullDownloadUrlRelative(download_url) ==
    LET dl == OrElse(download_url, Str(<<>>)) IN
    IF Truthy(dl) THEN TemplateString(dl) ELSE <<>>

\* dl ? `${BACKEND_URL}${dl}` : ""   with dl = payload?.download_url || ""
FullDownloadUrl(download_url) ==
    LET dl == OrElse(download_url, Str(<<>>)) IN
    IF Truthy(dl) THEN BACKEND_URL \o TemplateString(dl) ELSE <<>>

\* fullDl || undefined
DownloadLink(fullDl) == IF fullDl # <<>> THEN Str(fullDl) ELSE Undefined

\* mutant: the result is shown without a message for it
onModReadyNoMessage(payload) ==
    /\ LogRoom
    /\ UNCHANGED nextId
    /\ LET sumStr == SummaryText(payload.summary)
           fullDl == FullDownloadUrl(payload.download_url)
       IN  Commit(connected, "result", runId, progressMessages, messages, sumStr,
                  fullDl, error, TRUE)

onModReady(payload) ==
    /\ LogRoom
    /\ nextId' = nextId + 1
    /\ LET sumStr == SummaryText(payload.summary)
           fullDl == FullDownloadUrl(payload.download_url)
       IN  Commit(connected, "result", runId, progressMessages,
                  appendAgent(messages, nextId + 1, Str(sumStr), DownloadLink(fullDl)),
                  sumStr, fullDl, error, TRUE)

\* mutant: a message that is no string is serialized, as the summary is
ChatResponseTextSerialized(payload) ==
    IF IsString(payload.message) THEN payload.message.v
    ELSE JSONStringify(Coalesce(payload.message, EmptyObject))

\* typeof payload?.message === "string" ? payload.message : ""
ChatResponseText(payload) == IF IsString(payload.message) THEN payload.message.v ELSE <<>>

\* mutant: awaitingUser is set only when a message was appended
onChatResponseWhenText(payload) ==
    LET msg == ChatResponseText(payload) IN
    IF msg # <<>>
    THEN /\ LogRoom
         /\ nextId' = nextId + 1
         /\ Commit(connected, stage, runId, progressMessages,
                   appendAgent(messages, nextId + 1, Str(msg), Undefined), summary,
                   downloadUrl, error, TRUE)
    ELSE /\ UNCHANGED nextId
         /\ Commit(connected, stage, runId, progressMessages, messages, summary,
                   downloadUrl, error, awaitingUser)

onChatResponse(payload) ==
    LET msg == ChatResponseText(payload) IN
    IF msg # <<>>
    THEN /\ LogRoom
         /\ nextId' = nextId + 1
         /\ Commit(connected, stage, runId, progressMessages,
                   appendAgent(messages, nextId + 1, Str(msg), Undefined), summary,
                   downloadUrl, error, TRUE)
    ELSE /\ UNCHANGED nextId
         /\ Commit(connected, stage, runId, progressMessages, messages, summary,
                   downloadUrl, error, TRUE)

\* the socket hands an inbound event to the listener registered for it, if any
Receive(event, payload) ==
    /\ UNCHANGED <<mounted, socketRef, socketOpen, handlers, opens, emitted>>
    /\ IF event \in handlers
       THEN CASE event = "connected" -> onConnected(payload)
              [] event = "error" -> onError(payload)
              [] event = "run_started" -> onRunStarted(payload)
              [] event = "progress" -> onProgress(payload)
              [] event = "mod_ready" -> onModReady(payload)
              [] event = "chat_response" -> onChatResponse(payload)
       ELSE UNCHANGED <<connected, stage, runId, progressMessages, messages, summary,
                        downloadUrl, error, awaitingUser, sendChatRunId, content,
                        nextId>>

(***************************************************************************)
(* The effect cleanup: six socket.off, socket.disconnect(), and            *)
(* socketRef.current = null.  React runs it when the component unmounts.   *)
(***************************************************************************)
\* mutant: the cleanup forgets socket.off("progress", onProgress)
DetachAllButProgress(h) == h \ (EventNames \ {"progress"})

Detach(h) == h \ EventNames

\* mutant: the cleanup also takes the connected flag back
TeardownResetsConnected ==
    /\ handlers' = Detach(handlers)
    /\ socketOpen' = FALSE
    /\ socketRef' = "null"
    /\ mounted' = FALSE
    /\ connected' = FALSE
    /\ UNCHANGED <<stage, runId, progressMessages, messages, summary, downloadUrl,
                   error, awaitingUser, sendChatRunId, content, opens, emitted, nextId>>

Teardown ==
    /\ handlers' = Detach(handlers)
    /\ socketOpen' = FALSE
    /\ socketRef' = "null"
    /\ mounted' = FALSE
    /\ UNCHANGED <<connected, stage, runId, progressMessages, messages, summary,
                   downloadUrl, error, awaitingUser, sendChatRunId, content, opens,
                   emitted, nextId>>

(***************************************************************************)
(* Inputs: what the presentation layer may pass and the server may send.   *)
(***************************************************************************)
Prompts == {<<>>, <<" ", "\n">>, <<" ", "h", "i", " ">>}

ChatInputs == {<<"\t", " ">>, <<" ", "h", "e", "l", "l", "o", "\n">>}

\* (mcVersion, author) as the callers pass them
RunOptions ==
    {<<Str(<<"1", ".", "2", "1", ".", "1">>), Undefined>>, <<Undefined, Str(<<"m", "e">>)>>}

GeneratingCode ==
    <<"G", "e", "n", "e", "r", "a", "t", "i", "n", "g", " ", "c", "o", "d", "e">>

NodePlan == <<"n", "o", "d", "e", ":", " ", "P", "l", "a", "n">>

Other == <<"o", "t", "h", "e", "r">>

Done == <<"D", "o", "n", "e">>

FilesXZip == <<"/", "f", "i", "l", "e", "s", "/", "x", ".", "z", "i", "p">>

AllSet == <<"A", "l", "l", " ", "s", "e", "t">>

ConnectedPayloads == {[sid |-> Undefined]}

ErrorPayloads ==
    {[message |-> m] : m \in {Undefined, Str(<<"b", "o", "o", "m">>), Str(<<>>), Num(404)}}

RunStartedPayloads ==
    {[run_id |-> r] : r \in {Undefined, Str(<<"r", "1">>), Str(<<>>)}}

ProgressPayload(m, n, s) == [message |-> m, node |-> n, snapshot |-> s]

ProgressPayloads ==
    { ProgressPayload(Str(GeneratingCode), Undefined, Undefined),
      ProgressPayload(Undefined, Undefined, Arr(<<Str(NodePlan), Str(Other)>>)),
      ProgressPayload(Undefined, Undefined, Undefined) }

\* a snapshot that holds something that is not a string
MalformedProgress == {ProgressPayload(Undefined, Undefined, Arr(<<Str(Other), Num(5)>>))}

\* the payloads the derivation of the progress line is checked on
ProgressInputs ==
    { ProgressPayload(m, n, sn) :
        m \in {Undefined, Str(GeneratingCode), Str(<<" ", "o", "k", "\n">>),
               Str(<<" ", "\n">>), Num(5)},
        n \in {Undefined, Str(<<>>), Str(<<"P", "l", "a", "n">>), Num(3)},
        sn \in {Undefined, Arr(<<>>), Arr(<<Str(NodePlan), Str(Other)>>),
                Arr(<<Str(Other), Str(NodePlan)>>), Arr(<<Str(Other)>>),
                Arr(<<Str(<<>>), Str(Other)>>), Arr(<<Str(Other), Num(5)>>),
                Arr(<<Str(NodePlan), Num(5)>>), Str(NodePlan)} }

ModReadyPayloads ==
    { [summary |-> Str(Done), download_url |-> Str(FilesXZip)],
      [summary |-> Str(Done), download_url |-> Str(<<>>)],
      [summary |-> Undefined, download_url |-> Null],
      [summary |-> Arr(<<Str(Done), Num(12)>>), download_url |-> Undefined] }

ChatResponsePayloads ==
    {[message |-> m] : m \in {Undefined, Str(<<>>), Str(AllSet), Num(5)}}

(***************************************************************************)
(* The session: intents and inbound events in any order, then teardown.    *)
(***************************************************************************)
CallStartRun == \E p \in Prompts, o \in RunOptions : startRun(p, o[1], o[2])

CallSendChat == \E m \in ChatInputs : sendChat(m)

RecvConnected == \E p \in ConnectedPayloads : Receive("connected", p)

RecvError == \E p \in ErrorPayloads : Receive("error", p)

RecvRunStarted == \E p \in RunStartedPayloads : Receive("run_started", p)

RecvProgress == \E p \in ProgressPayloads : Receive("progress", p)

RecvModReady == \E p \in ModReadyPayloads : Receive("mod_ready", p)

RecvChatResponse == \E p \in ChatResponsePayloads : Receive("chat_response", p)

Next ==
    \/ CallStartRun /\ UNCHANGED history
    \/ CallSendChat /\ UNCHANGED history
    \/ RecvConnected /\ UNCHANGED history
    \/ RecvError /\ UNCHANGED history
    \/ RecvRunStarted /\ UNCHANGED history
    \/ RecvProgress /\ UNCHANGED history
    \/ RecvModReady /\ UNCHANGED history
    \/ RecvChatResponse /\ UNCHANGED history
    \/ Teardown /\ UNCHANGED history

Spec == Init /\ [][Next]_vars

(***************************************************************************)
(* The same session with the operation taken last recorded in the state,   *)
(* so that an operation that changes nothing (a rejected intent, an event  *)
(* that finds no listener) can be told from no operation at all.  Each     *)
(* event comes with one payload.  When the connection is lost the socket   *)
(* raises its own disconnect event, for which the hook registers nothing.  *)
(***************************************************************************)
TracedPayload(event) ==
    CASE event = "connected" -> [sid |-> Undefined]
      [] event = "error" -> [message |-> Str(<<"b", "o", "o", "m">>)]
      [] event = "run_started" -> [run_id |-> Str(<<"r", "1">>)]
      [] event = "progress" -> ProgressPayload(Str(GeneratingCode), Undefined, Undefined)
      [] event = "mod_ready" -> [summary |-> Str(Done), download_url |-> Str(FilesXZip)]
      [] event = "chat_response" -> [message |-> Str(AllSet)]
      [] event = "disconnect" -> [reason |-> Str(<<"p", "i", "n", "g">>)]

\* the operation taken is recorded, and nothing else of the history
Traced(op) == last' = op /\ UNCHANGED <<recent, runIdSet, progressSeen, room>>

Deliver(event) == Receive(event, TracedPayload(event)) /\ Traced(event)

NextTraced ==
    \/ CallStartRun /\ Traced("startRun")
    \/ CallSendChat /\ Traced("sendChat")
    \/ Deliver("connected")
    \/ Deliver("error")
    \/ Deliver("run_started")
    \/ Deliver("progress")
    \/ Deliver("mod_ready")
    \/ Deliver("chat_response")
    \/ Deliver("disconnect")
    \/ Teardown /\ Traced("teardown")

SpecTraced == Init /\ [][NextTraced]_vars

(***************************************************************************)
(* The derivation of the progress line on its own: progress events with    *)
(* every shape of payload, chat_response, which sets awaitingUser, and     *)
(* sendChat, which clears the log.                                         *)
(***************************************************************************)
RecvProgressInput == \E p \in ProgressInputs : Receive("progress", p)

NextProgress ==
    \/ RecvProgressInput /\ UNCHANGED history
    \/ RecvChatResponse /\ UNCHANGED history
    \/ CallSendChat /\ UNCHANGED history

SpecProgress == Init /\ [][NextProgress]_vars

(***************************************************************************)
(* The session with the latest of the five operations that set             *)
(* awaitingUser recorded: a startRun or sendChat that is not blank, and a  *)
(* progress, mod_ready or chat_response event that its handler took.       *)
(***************************************************************************)
Turn(op) == recent' = op /\ UNCHANGED <<last, runIdSet, progressSeen, room>>

NoTurn == UNCHANGED history

TurnStartRun ==
    \E p \in Prompts, o \in RunOptions :
        /\ startRun(p, o[1], o[2])
        /\ IF IsBlank(p) THEN NoTurn ELSE Turn("startRun")

TurnSendChat ==
    \E m \in ChatInputs :
        /\ sendChat(m)
        /\ IF IsBlank(m) THEN NoTurn ELSE Turn("sendChat")

TurnRecv(event, payloads) ==
    \E p \in payloads :
        /\ Receive(event, p)
        /\ IF event \in handlers THEN Turn(event) ELSE NoTurn

NextTurns ==
    \/ TurnStartRun
    \/ TurnSendChat
    \/ TurnRecv("progress", ProgressPayloads \cup MalformedProgress)
    \/ TurnRecv("mod_ready", ModReadyPayloads)
    \/ TurnRecv("chat_response", ChatResponsePayloads)
    \/ Receive("connected", TracedPayload("connected")) /\ NoTurn
    \/ Receive("error", TracedPayload("error")) /\ NoTurn
    \/ Receive("run_started", TracedPayload("run_started")) /\ NoTurn
    \/ Teardown /\ NoTurn

SpecTurns == Init /\ [][NextTurns]_vars

(***************************************************************************)
(* The session with the runs told apart: a startRun that is not blank      *)
(* begins a run, whose id is unset until a run_started event that the      *)
(* handler took has brought one.  The server may send run_started more     *)
(* than once, with another id or with none.                                *)
(***************************************************************************)
RunStartedAgainPayloads ==
    {[run_id |-> r] : r \in {Undefined, Str(<<"r", "1">>), Str(<<"r", "2">>)}}

RunIdSet(b) == runIdSet' = b /\ UNCHANGED <<last, recent, progressSeen, room>>

RunStartRun ==
    \E p \in Prompts, o \in RunOptions :
        /\ startRun(p, o[1], o[2])
        /\ RunIdSet(IF IsBlank(p) THEN runIdSet ELSE "unset")

RunRecvRunStarted ==
    \E p \in RunStartedAgainPayloads :
        /\ Receive("run_started", p)
        /\ RunIdSet(IF runIdSet = "unset" /\ mounted /\ Truthy(p.run_id)
                    THEN "set"
                    ELSE runIdSet)

NextRuns ==
    \/ RunStartRun
    \/ RunRecvRunStarted
    \/ CallSendChat /\ UNCHANGED history
    \/ Receive("progress", TracedPayload("progress")) /\ UNCHANGED history
    \/ Receive("mod_ready", TracedPayload("mod_ready")) /\ UNCHANGED history
    \/ Receive("chat_response", TracedPayload("chat_response")) /\ UNCHANGED history
    \/ Teardown /\ UNCHANGED history

SpecRuns == Init /\ [][NextRuns]_vars

(***************************************************************************)
(* A second run: the same, with the connected event, and with room for the *)
(* prompt of a first run, the prompt of a second and a follow-up.          *)
(***************************************************************************)
InitSecondRun == Mount /\ room = MaxRunLog

NextSecondRun ==
    \/ RunStartRun
    \/ RunRecvRunStarted
    \/ CallSendChat /\ UNCHANGED history
    \/ Receive("connected", TracedPayload("connected")) /\ UNCHANGED history
    \/ Teardown /\ UNCHANGED history

SpecSecondRun == InitSecondRun /\ [][NextSecondRun]_vars

(***************************************************************************)
(* The session with the progress events recorded that came in since the    *)
(* progress log was last cleared by a startRun or sendChat that was not    *)
(* blank.                                                                  *)
(***************************************************************************)
Seen(seq) == progressSeen' = seq /\ UNCHANGED <<last, recent, runIdSet, room>>

\* the bound of the model, for the progress events recorded
SeenRoom == nextId + Len(progressSeen) < room

LogStartRun ==
    \E p \in Prompts, o \in RunOptions :
        /\ startRun(p, o[1], o[2])
        /\ Seen(IF IsBlank(p) THEN progressSeen ELSE <<>>)

LogSendChat ==
    \E m \in ChatInputs :
        /\ sendChat(m)
        /\ Seen(IF IsBlank(m) THEN progressSeen ELSE <<>>)

LogRecvProgress ==
    \E p \in ProgressPayloads \cup MalformedProgress :
        /\ SeenRoom
        /\ Receive("progress", p)
        /\ Seen(IF "progress" \in handlers THEN Append(progressSeen, p) ELSE progressSeen)

NextLog ==
    \/ LogStartRun
    \/ LogSendChat
    \/ LogRecvProgress
    \/ Receive("connected", TracedPayload("connected")) /\ UNCHANGED history
    \/ Receive("error", TracedPayload("error")) /\ UNCHANGED history
    \/ Receive("run_started", TracedPayload("run_started")) /\ UNCHANGED history
    \/ Receive("mod_ready", TracedPayload("mod_ready")) /\ UNCHANGED history
    \/ Receive("chat_response", TracedPayload("chat_response")) /\ UNCHANGED history
    \/ Teardown /\ UNCHANGED history

SpecLog == Init /\ [][NextLog]_vars

(***************************************************************************)
(* The presentation layer: StageContainer shows its memoized content, the  *)
(* prompt form while the stage is prompt and the result view after, and    *)
(* the user's submits reach the controller through the handlers that       *)
(* content holds.  The user's operations are recorded as "hero" and        *)
(* "composer".                                                             *)
(***************************************************************************)
program ==
    <<mounted, socketRef, socketOpen, handlers, connected, stage, runId,
      progressMessages, messages, summary, downloadUrl, error, awaitingUser,
      sendChatRunId, content, opens, emitted, nextId>>

\* the versions the select of the form offers: the first, its default, and the last
AVAILABLE_MC_VERSIONS ==
    {Str(<<"1", ".", "2", "1", ".", "1">>), Str(<<"1", ".", "2", "1", ".", "8">>)}

\* StageContainer.handleSubmit
handleSubmit(text, mcVersion) ==
    IF text = <<>> THEN UNCHANGED program ELSE startRun(text, mcVersion, Undefined)

\* mutant: the form stays on the page in the result stage
HeroFormSubmitAnyStage(value, mcVersion) ==
    /\ mounted
    /\ handleSubmit(Trim(value), mcVersion)

\* HeroForm.handleSubmit: the form is on the page while the content is the prompt form
HeroFormSubmit(value, mcVersion) ==
    /\ mounted
    /\ content.stage = "prompt"
    /\ handleSubmit(Trim(value), mcVersion)

\* StageContainer.handleSendMessage, as the render made it whose sendChat captured rid
handleSendMessage(rid, message) ==
    IF IsBlank(message) THEN UNCHANGED program ELSE sendChatClosure(rid, message)

\* mutant: the composer looks at the text only
ComposerAcceptsWhileBusy(text, isBusy) == text # <<>>

\* if (!text || isBusy) return;
ComposerAccepts(text, isBusy) == text # <<>> /\ ~isBusy

\* the onSubmit of the composer of ResultStage, with the props content gave it
ComposerSubmit(message) ==
    /\ mounted
    /\ content.stage = "result"
    /\ LET text == Trim(message) IN
       IF ComposerAccepts(text, content.isBusy)
       THEN handleSendMessage(content.runId, text)
       ELSE UNCHANGED program

UserSubmitsPrompt == \E v \in Prompts, mc \in AVAILABLE_MC_VERSIONS : HeroFormSubmit(v, mc)

UserSubmitsFollowUp == \E m \in ChatInputs : ComposerSubmit(m)

NextUI ==
    \/ UserSubmitsPrompt /\ Traced("hero")
    \/ UserSubmitsFollowUp /\ Traced("composer")
    \/ Deliver("connected")
    \/ Deliver("error")
    \/ Deliver("run_started")
    \/ Deliver("progress")
    \/ Deliver("mod_ready")
    \/ Deliver("chat_response")
    \/ Teardown /\ Traced("teardown")

SpecUI == Init /\ [][NextUI]_vars

(***************************************************************************)
(* Properties.                                                             *)
(***************************************************************************)
LastMessage == messages[Len(messages)]

LastEmitted == emitted[Len(emitted)]

Hi == <<"h", "i">>

RawHi == <<" ", "h", "i", " ">>

Hello == <<"h", "e", "l", "l", "o">>

R1 == Str(<<"r", "1">>)

ChatEvents(log) == {i \in 1..Len(log) : log[i].event = "chat"}

\* C1: on a mounted controller, for every prompt P that does not trim to empty and
\* from every reachable state, startRun(P) leaves stage = result, awaitingUser =
\* false, the error cleared (null), the progress log empty, the summary and the
\* download URL empty, and a message log of exactly one entry: a user ChatMessage
\* whose text is the raw, untrimmed P.
C1_StartRunResets ==
    [][\A p \in Prompts, o \in RunOptions :
         (mounted /\ Trim(p) # <<>> /\ startRun(p, o[1], o[2])) =>
            /\ stage' = "result"
            /\ awaitingUser' = FALSE
            /\ error' = Null
            /\ progressMessages' = <<>>
            /\ summary' = <<>>
            /\ downloadUrl' = <<>>
            /\ Len(messages') = 1
            /\ messages'[1].role = "user"
            /\ messages'[1].text = p
            /\ messages'[1].downloadUrl = Undefined]_vars

\* startRun(" hi ") has replaced an earlier log (the id of its message is the
\* second one handed out) and the raw text is what the log holds
C1_Witness ==
    /\ emitted # <<>>
    /\ LastEmitted.event = "start_run"
    /\ stage = "result"
    /\ ~awaitingUser
    /\ Len(messages) = 1
    /\ messages[1].id = 2
    /\ messages[1].text = RawHi
    /\ Trim(RawHi) = Hi

\* C2: for every blank or whitespace-only argument, startRun and sendChat change no
\* field of the session state (stage, runId, connected, awaitingUser, error, progress
\* log, message log, summary, download URL) and call socket.emit for nothing.
C2_BlankIsNoOp ==
    [][/\ \A p \in Prompts, o \in RunOptions :
            (Trim(p) = <<>> /\ startRun(p, o[1], o[2])) =>
               UNCHANGED <<session, emitted>>
       /\ \A m \in ChatInputs :
            (Trim(m) = <<>> /\ sendChat(m)) => UNCHANGED <<session, emitted>>]_vars

\* a sendChat that was rejected: a sendChat that is not blank leaves awaitingUser
\* false and the progress log empty
C2_Witness ==
    /\ last = "sendChat"
    /\ mounted
    /\ awaitingUser
    /\ progressMessages # <<>>
    /\ \E m \in ChatInputs : Trim(m) = <<>> /\ m # <<>>

\* C3: on a mounted controller, for every message M that does not trim to empty and
\* whatever awaitingUser is, sendChat(M) appends exactly one user ChatMessage with
\* text trim(M) to the end of the message log, empties the progress log, sets
\* awaitingUser = false, and emits chat {run_id: runId, message: trim(M)} if and
\* only if runId is set when it is called.
C3_SendChatAppends ==
    [][\A m \in ChatInputs :
         (mounted /\ Trim(m) # <<>> /\ sendChat(m)) =>
            /\ Len(messages') = Len(messages) + 1
            /\ SubSeq(messages', 1, Len(messages)) = messages
            /\ messages'[Len(messages')].role = "user"
            /\ messages'[Len(messages')].text = Trim(m)
            /\ messages'[Len(messages')].downloadUrl = Undefined
            /\ progressMessages' = <<>>
            /\ awaitingUser' = FALSE
            /\ IF runId # Null
               THEN emitted' = Append(emitted,
                        [event |-> "chat",
                         payload |-> [run_id |-> runId, message |-> Trim(m)]])
               ELSE emitted' = emitted]_vars

\* sendChat(" hello\n") after run_started: the trimmed text is at the end of the
\* log, behind the prompt, and the chat event carries the run id
C3_Witness ==
    /\ mounted
    /\ progressMessages = <<>>
    /\ Len(messages) = 2
    /\ LastMessage.role = "user"
    /\ LastMessage.text = Hello
    /\ emitted # <<>>
    /\ LastEmitted = [event |-> "chat", payload |-> [run_id |-> R1, message |-> Hello]]
    /\ ~awaitingUser

\* C4: no chat event is emitted while runId is unset: a sendChat that is not blank,
\* called while runId is unset, appends its message to the log and the number of
\* chat events emitted stays what it was; every chat event ever emitted carries a
\* run_id that is set.
C4_NoChatWithoutRunId ==
    [][/\ \A i \in ChatEvents(emitted') :
            /\ emitted'[i].payload.run_id # Null
            /\ Truthy(emitted'[i].payload.run_id)
       /\ runId = Null => ChatEvents(emitted') = ChatEvents(emitted)
       /\ \A m \in ChatInputs :
            (mounted /\ runId = Null /\ Trim(m) # <<>> /\ sendChat(m)) =>
               /\ emitted' = emitted
               /\ Len(messages') = Len(messages) + 1
               /\ messages'[Len(messages')].text = Trim(m)]_vars

\* sendChat("hello") before any run id is known: the message is in the log and no
\* chat event has been emitted
C4_Witness ==
    /\ mounted
    /\ runId = Null
    /\ messages # <<>>
    /\ LastMessage = UserMessage(nextId, Hello)
    /\ ChatEvents(emitted) = {}

\* C5: each startRun with a prompt that is not blank, on a mounted controller, emits
\* exactly one event, start_run {prompt: the raw prompt, author, mc_version:
\* mcVersion}, and nothing else, whether connected is true or not.
C5_StartRunEmitsOnce ==
    [][\A p \in Prompts, o \in RunOptions :
         (mounted /\ Trim(p) # <<>> /\ startRun(p, o[1], o[2])) =>
            emitted' = Append(emitted,
                [event |-> "start_run",
                 payload |-> [prompt |-> p, author |-> o[2], mc_version |-> o[1]]])]_vars

\* start_run went out before the connected event came in
C5_Witness ==
    /\ mounted
    /\ ~connected
    /\ emitted # <<>>
    /\ LastEmitted.event = "start_run"
    /\ LastEmitted.payload.prompt = RawHi
    /\ LastEmitted.payload.mc_version # Undefined
    /\ Len(messages) = 1

\* the summary text of the claim: the summary as it is if a string, else serialized
SummaryAsText(sum) ==
    IF IsString(sum) THEN sum.v ELSE JSONStringify(Coalesce(sum, EmptyObject))

\* a payload field is present: the server sent a value for it
Present(x) == x.t \notin {"undefined", "null"}

\* mod_ready appends exactly one agent message with the summary text and the link
ModReadyAppends(p, link) ==
    /\ Len(messages') = Len(messages) + 1
    /\ SubSeq(messages', 1, Len(messages)) = messages
    /\ messages'[Len(messages')].role = "agent"
    /\ messages'[Len(messages')].text = SummaryAsText(p.summary)
    /\ messages'[Len(messages')].downloadUrl = link
    /\ stage' = "result"
    /\ awaitingUser' = TRUE

\* C6 as stated: every mod_ready event handled, in any session state, appends exactly
\* one agent ChatMessage whose text is the summary (serialized unless a string) and
\* whose downloadUrl is the backend base URL followed by download_url whenever
\* download_url is present (no link otherwise), and sets stage = result and
\* awaitingUser = true.
C6_LinkWheneverPresent ==
    [][\A p \in ModReadyPayloads :
         (mounted /\ Receive("mod_ready", p)) =>
            ModReadyAppends(p,
                IF Present(p.download_url)
                THEN Str(BACKEND_URL \o TemplateString(p.download_url))
                ELSE Undefined)]_vars

\* C6 amended: as C6, with the download link made only when download_url is present
\* and not empty; an empty download_url gives a message without a link.
C6_LinkWhenNonEmpty ==
    [][\A p \in ModReadyPayloads :
         (mounted /\ Receive("mod_ready", p)) =>
            ModReadyAppends(p,
                IF Present(p.download_url) /\ p.download_url # Str(<<>>)
                THEN Str(BACKEND_URL \o TemplateString(p.download_url))
                ELSE Undefined)]_vars

\* mod_ready {summary: "Done", download_url: "/files/x.zip"} handled in stage prompt,
\* no run started: the agent message links to http://localhost:5001/files/x.zip
C6_Witness ==
    /\ mounted
    /\ emitted = <<>>
    /\ stage = "result"
    /\ awaitingUser
    /\ Len(messages) = 1
    /\ LastMessage.role = "agent"
    /\ LastMessage.text = Done
    /\ LastMessage.downloadUrl = Str(BACKEND_URL \o FilesXZip)
    /\ Len(LastMessage.downloadUrl.v) = Len(BACKEND_URL) + Len(FilesXZip)

\* C7: every chat_response event handled sets awaitingUser = true; it appends exactly
\* one agent ChatMessage with text = message and no download link when message is a
\* string that is not empty, and appends nothing when message is absent, empty or
\* not a string. It changes neither stage nor the progress log.
C7_ChatResponse ==
    [][\A p \in ChatResponsePayloads :
         (mounted /\ Receive("chat_response", p)) =>
            /\ awaitingUser' = TRUE
            /\ stage' = stage
            /\ progressMessages' = progressMessages
            /\ IF IsString(p.message) /\ p.message.v # <<>>
               THEN /\ Len(messages') = Len(messages) + 1
                    /\ SubSeq(messages', 1, Len(messages)) = messages
                    /\ messages'[Len(messages')].role = "agent"
                    /\ messages'[Len(messages')].text = p.message.v
                    /\ messages'[Len(messages')].downloadUrl = Undefined
               ELSE messages' = messages]_vars

\* chat_response {message: "All set"} after a prompt, with the progress log kept
C7_Witness ==
    /\ mounted
    /\ awaitingUser
    /\ Len(messages) = 2
    /\ LastMessage = AgentMessage(2, AllSet, Undefined)
    /\ messages[1].role = "user"

\* the elements of a snapshot, when the payload holds one that is an array
SnapshotOf(p) == IF IsArray(p.snapshot) THEN p.snapshot.v ELSE <<>>

\* the first element of a snapshot that is a string starting with "node:"
NodeIndexes(snap) ==
    {i \in 1..Len(snap) : IsString(snap[i]) /\ StartsWith(snap[i].v, NodePrefix)}

FirstNodeElement(snap) ==
    snap[CHOOSE i \in NodeIndexes(snap) : \A j \in NodeIndexes(snap) : i <= j].v

\* C8: every progress event handled, whatever its payload, sets awaitingUser = false
\* and appends exactly one line to the end of the progress log: never none, never
\* more than one.
C8_OneLinePerProgress ==
    [][\A p \in ProgressInputs :
         (mounted /\ Receive("progress", p)) =>
            /\ awaitingUser' = FALSE
            /\ Len(progressMessages') = Len(progressMessages) + 1
            /\ SubSeq(progressMessages', 1, Len(progressMessages)) = progressMessages]_vars

\* the line of the claim's priority order: message if not empty after trimming, else
\* node if present, else the first snapshot element starting with "node:", else the
\* first snapshot element, else "Working..."
ClaimedLine(p) ==
    IF IsString(p.message) /\ Trim(p.message.v) # <<>> THEN p.message.v
    ELSE IF Present(p.node) THEN TemplateString(p.node)
    ELSE IF NodeIndexes(SnapshotOf(p)) # {} THEN FirstNodeElement(SnapshotOf(p))
    ELSE IF SnapshotOf(p) # <<>> THEN TemplateString(SnapshotOf(p)[1])
    ELSE Working

\* the line of the code's order: message if a string that is not empty after
\* trimming, else node if a string that is not empty, else the first snapshot
\* element starting with "node:", else the first snapshot element if it is not
\* empty, else "Working..."
AmendedLine(p) ==
    IF IsString(p.message) /\ Trim(p.message.v) # <<>> THEN p.message.v
    ELSE IF IsString(p.node) /\ p.node.v # <<>> THEN p.node.v
    ELSE IF NodeIndexes(SnapshotOf(p)) # {} THEN FirstNodeElement(SnapshotOf(p))
    ELSE IF SnapshotOf(p) # <<>> /\ IsString(SnapshotOf(p)[1]) /\ SnapshotOf(p)[1].v # <<>>
         THEN SnapshotOf(p)[1].v
    ELSE Working

C10_SilentAfterTeardown ==
    [][/\ ~mounted' => (handlers' = {} /\ ~socketOpen' /\ socketRef' = "null")
       /\ (~mounted /\ last' \in EventNames \cup {"teardown"}) =>
             UNCHANGED <<session, mounted, handlers, socketOpen, socketRef, emitted>>]_vars

\* a mod_ready event delivered after the cleanup, to a session that had a run going
C10_Witness ==
    /\ ~mounted
    /\ last = "mod_ready"
    /\ handlers = {}
    /\ stage = "result"
    /\ ~awaitingUser
    /\ Len(messages) = 1
    /\ runId = R1

\* C11: the stage is prompt in the initial state and, once it is result, it is result
\* in every later state: no intent, no inbound event and no cleanup sets it back to
\* prompt.
C11_StageNeverReturns ==
    /\ stage = "prompt"
    /\ [][/\ stage' \in {"prompt", "result"}
          /\ stage = "result" => stage' = "result"]_vars

\* the stage is still result after a second startRun and an error event
C11_Witness ==
    /\ stage = "result"
    /\ nextId = 2
    /\ Len(messages) = 1
    /\ error = Str(UnknownError)
    /\ emitted # <<>>

\* C12: awaitingUser is false initially and, for as long as the controller is mounted,
\* it is true exactly when the latest of the five operations (a startRun or sendChat
\* that is not blank, a progress, mod_ready or chat_response event) was mod_ready or
\* chat_response; so the session stays busy after start_run until mod_ready or
\* chat_response comes in. A step that is none of the five (connected, error,
\* run_started, a blank intent, the cleanup) never changes it.
C12_AwaitingUserFollowsTurns ==
    /\ ~awaitingUser
    /\ [](mounted => (awaitingUser <=> recent \in {"mod_ready", "chat_response"}))
    /\ [][recent' = recent => awaitingUser' = awaitingUser]_vars

\* a progress event whose handler raised has still ended the idle period that a
\* chat_response had begun, and an error event after it has changed nothing
C12_Witness ==
    /\ mounted
    /\ recent = "progress"
    /\ ~awaitingUser
    /\ progressMessages = <<>>
    /\ messages = <<AgentMessage(1, AllSet, Undefined)>>
    /\ error # Null

\* the log after the step holds the log before it unchanged, id, role, text and
\* downloadUrl, with at most one new message behind it
Appended ==
    /\ Len(messages') \in {Len(messages), Len(messages) + 1}
    /\ SubSeq(messages', 1, Len(messages)) = messages

\* the messages are in the order in which they were made: crypto.randomUUID handed
\* out their ids in that order
InOrderOfCreation(msgs) == \A i, j \in 1..Len(msgs) : i < j => msgs[i].id < msgs[j].id

\* C13 as stated: the message log is append-only over every sequence of intents and
\* inbound events: a message that was added stays at its position with its id, role,
\* text and downloadUrl, and new messages are only added at the end, in the order in
\* which the operations that made them occurred.
C13_AppendOnly == [][Appended /\ InOrderOfCreation(messages')]_vars

\* C13 amended: the message log is append-only over every sequence of sendChat calls
\* and inbound events, with new messages added at the end in the order of the
\* operations that made them; a startRun that is not blank is the one operation that
\* removes messages: it replaces the whole log by the one user message of its prompt.
C13_AppendOnlyButStartRun ==
    [][/\ InOrderOfCreation(messages')
       /\ \/ Appended
          \/ \E p \in Prompts, o \in RunOptions :
                /\ ~IsBlank(p)
                /\ startRun(p, o[1], o[2])
                /\ messages' = <<StartRunMessage(nextId', p)>>]_vars

\* the agent's message of a mod_ready event, then the user's follow-up behind it
C13_Witness ==
    /\ mounted
    /\ Len(messages) = 2
    /\ messages[1] = AgentMessage(1, Done, Str(BACKEND_URL \o FilesXZip))
    /\ messages[2] = UserMessage(2, Hello)

\* C14: runId is set at most once per run: between one startRun that is not blank and
\* the next, once a run_started event has set runId, no later step replaces it by
\* another id or resets it to unset, whatever inbound events follow.
C14_RunIdSetOncePerRun ==
    [][(runIdSet = "set" /\ runIdSet' = "set") => runId' = runId]_vars

\* C15: every error event handled sets the error to payload.message when message is
\* a string (any string, the empty one too: that is what the payload has to hold to
\* be usable) and to "Unknown error" otherwise, whatever the error was before, and it
\* leaves stage, runId, connected, awaitingUser, the progress log, the message log,
\* the summary and the download URL as they were. An error that is set is cleared
\* (null again) only by a startRun that is not blank.
C15_ErrorOverwritesOnly ==
    [][/\ \A p \in ErrorPayloads :
            (mounted /\ Receive("error", p)) =>
               /\ error' = IF p.message.t = "string" THEN p.message ELSE Str(UnknownError)
               /\ UNCHANGED <<stage, runId, connected, awaitingUser, progressMessages,
                              messages, summary, downloadUrl, emitted>>
       /\ (error # Null /\ error' = Null) =>
             \E p \in Prompts, o \in RunOptions : ~IsBlank(p) /\ startRun(p, o[1], o[2])]_vars

\* error {message: 404} after mod_ready and run_started: the fallback text is the
\* error, and the result, the run id and the idle flag are still there
C15_Witness ==
    /\ mounted
    /\ error = Str(UnknownError)
    /\ Num(404) \in {p.message : p \in ErrorPayloads}
    /\ stage = "result"
    /\ awaitingUser
    /\ runId = R1
    /\ Len(messages) = 1
    /\ emitted = <<>>

\* C16: in every state of a mounted controller the progress log holds exactly one
\* line for each progress event that came in since the latest startRun or sendChat
\* that was not blank (since mount if there was none), in the order in which they
\* came; and mod_ready, chat_response, error, run_started and connected events neither
\* add to the log nor clear it.
C16_OneLinePerEventSinceClear ==
    /\ [](mounted =>
            /\ Len(progressMessages) = Len(progressSeen)
            /\ \A i \in 1..Len(progressSeen) :
                  progressMessages[i] = ProgressLine(progressSeen[i]).line)
    /\ [][(progressSeen' = progressSeen /\ mounted) =>
             progressMessages' = progressMessages]_vars

\* a run_started event changes nothing of the session but runId
OnlyRunIdChanges ==
    UNCHANGED <<stage, awaitingUser, messages, progressMessages, error, connected,
                summary, downloadUrl, emitted>>

\* C17 as stated: every run_started event handled sets runId to the payload's run_id,
\* or to null when run_id is absent, and changes no other field of the session state.
C17_RunIdWheneverPresent ==
    [][\A p \in RunStartedPayloads :
         (mounted /\ Receive("run_started", p)) =>
            /\ runId' = IF Present(p.run_id) THEN p.run_id ELSE Null
            /\ OnlyRunIdChanges]_vars

\* C17 amended: every run_started event handled sets runId to the payload's run_id
\* when run_id is present and not empty, and to null when run_id is absent or empty;
\* it changes no other field of the session state.
C17_RunIdWhenNonEmpty ==
    [][\A p \in RunStartedPayloads :
         (mounted /\ Receive("run_started", p)) =>
            /\ runId' = IF Present(p.run_id) /\ p.run_id # Str(<<>>) THEN p.run_id ELSE Null
            /\ OnlyRunIdChanges]_vars

\* run_started {run_id: "r1"} in the middle of a run: the id is set, and the prompt,
\* the progress line and the busy flag are as they were
C17_Witness ==
    /\ mounted
    /\ runId = R1
    /\ stage = "result"
    /\ ~awaitingUser
    /\ messages = <<UserMessage(1, RawHi)>>
    /\ progressMessages = <<GeneratingCode>>

\* C18: the connection is opened exactly once in the controller's lifetime, by the
\* effect at mount: io() has been called once in every state, and the socket it made
\* is open until the cleanup closes it, whatever intents are called and events come
\* in. connected is false initially and changes only in the step that handles the
\* connected event, which makes it true.
C18_OpenedOnceConnectedOnEvent ==
    /\ ~connected
    /\ [](opens = 1)
    /\ [][/\ socketOpen' # socketOpen => (last' = "teardown" /\ ~socketOpen')
          /\ connected' # connected => (last' = "connected" /\ connected')
          /\ (mounted /\ last' = "connected") => connected']_vars

\* the connected event came in after start_run had gone out, and a run_started event
\* after it: one connection, still open
C18_Witness ==
    /\ mounted
    /\ connected
    /\ opens = 1
    /\ socketOpen
    /\ last = "run_started"
    /\ runId = R1
    /\ emitted # <<>>
    /\ LastEmitted.event = "start_run"

\* C19: the result view as rendered shows the controller's awaitingUser (isBusy is
\* its negation), and a submit of its composer reaches sendChat only when that isBusy
\* is false and the text is not blank: then the trimmed text is appended as a user
\* message. While the rendered isBusy is true, or with a blank text, a submit calls
\* nothing: no message is appended and no chat event is emitted.
C19_ComposerGated ==
    /\ [](mounted => content.isBusy = ~awaitingUser)
    /\ [][/\ (last' = "composer" /\ content.isBusy) =>
                UNCHANGED <<session, emitted, nextId>>
          /\ \A m \in ChatInputs :
                (last' = "composer" /\ ComposerSubmit(m)) =>
                   IF ~content.isBusy /\ Trim(m) # <<>>
                   THEN messages' = Append(messages, UserMessage(nextId', Trim(m)))
                   ELSE UNCHANGED <<session, emitted, nextId>>]_vars

\* a submit of the composer while the run started from the form was busy: the log
\* holds the prompt only and nothing but start_run has been emitted
C19_Witness ==
    /\ last = "composer"
    /\ content = Content("result", FALSE, Null)
    /\ content.isBusy
    /\ messages = <<UserMessage(1, Hi)>>
    /\ Len(emitted) = 1

\* C20: a follow-up submitted in the composer uses the controller's current runId:
\* in every state in which the composer accepts a submit, the sendChat that the
\* memoized result view holds has captured the current runId, and whenever runId is
\* set when a follow-up that is not blank is submitted, a chat event with that runId
\* is emitted, in whatever order the inbound events came.
C20_FollowUpUsesCurrentRunId ==
    /\ []((mounted /\ content.stage = "result" /\ ~content.isBusy) =>
            content.runId = runId)
    /\ [][(last' = "composer" /\ messages' # messages /\ runId # Null) =>
             emitted' = Append(emitted,
                 [event |-> "chat",
                  payload |-> [run_id |-> runId,
                               message |-> messages'[Len(messages')].text]])]_vars

\* the start_run events among the calls of socket.emit
StartRunEvents(log) == {i \in 1..Len(log) : log[i].event = "start_run"}

\* C21: the presentation layer reaches startRun only while the stage is prompt: a
\* submit of the prompt form is possible only while the content shown is the form, a
\* submit that starts a run ends that, and so in one lifetime of the controller at
\* most one start_run event is emitted.
C21_OneRunFromTheForm ==
    /\ [](Cardinality(StartRunEvents(emitted)) <= 1)
    /\ [][/\ last' = "hero" => (stage = "prompt" /\ content.stage = "prompt")
          /\ StartRunEvents(emitted') # StartRunEvents(emitted) =>
                /\ last' = "hero"
                /\ emitted = <<>>
                /\ stage' = "result"
                /\ content'.stage = "result"]_vars

\* the run started from the form has got its result: the form has been gone since
\* the submit, the composer is what the user has now, and one start_run went out
C21_Witness ==
    /\ mounted
    /\ last = "mod_ready"
    /\ content.stage = "result"
    /\ ~content.isBusy
    /\ Cardinality(StartRunEvents(emitted)) = 1
    /\ emitted[1].payload.prompt = Hi
    /\ Len(messages) = 2

\* C22: in every state, stage = result implies that the message log is not empty.
C22_ResultHasMessages == stage = "result" => messages # <<>>

\* mod_ready {} handled in stage prompt: the stage is result and the log holds the
\* agent's message, whose text is the serialized empty summary
C22_Witness ==
    /\ stage = "result"
    /\ emitted = <<>>
    /\ messages = <<AgentMessage(1, <<"{", "}">>, Undefined)>>
    /\ summary = <<"{", "}">>

\* C23: a startRun that is not blank leaves runId and connected as they were; so a
\* sendChat that is not blank, called on a mounted controller after a second startRun
\* and before that run's run_started event, emits a chat event that carries the run
\* id of the run before.
C23_StartRunKeepsRunId ==
    [][/\ \A p \in Prompts, o \in RunOptions :
            (~IsBlank(p) /\ startRun(p, o[1], o[2])) => UNCHANGED <<runId, connected>>
       /\ \A m \in ChatInputs :
            (mounted /\ runIdSet = "unset" /\ runId # Null /\ ~IsBlank(m) /\ sendChat(m)) =>
               emitted' = Append(emitted,
                   [event |-> "chat", payload |-> [run_id |-> runId, message |-> Trim(m)]])]_vars

\* the first run got the id r1; a second startRun and then sendChat(" hello\n") before
\* any run_started for it: the chat event went out with r1
C23_Witness ==
    /\ mounted
    /\ connected
    /\ runIdSet = "unset"
    /\ Cardinality(StartRunEvents(emitted)) = 2
    /\ Len(emitted) = 3
    /\ LastEmitted = [event |-> "chat", payload |-> [run_id |-> R1, message |-> Hello]]
    /\ messages = <<UserMessage(2, RawHi), UserMessage(3, Hello)>>

\* C24: connected is monotone: once it is true, no step makes it false again, be it an
\* intent, an inbound event, the loss of the connection (the socket's disconnect
\* event has no handler) or the cleanup.
C24_ConnectedMonotone == [][connected => connected']_vars

\* the connection was lost after the connected event and a startRun: the flag is
\* still true
C24_Witness ==
    /\ connected
    /\ last = "disconnect"
    /\ "disconnect" \notin handlers
    /\ mounted
    /\ emitted # <<>>

\* C25: after the cleanup has run, socketRef is null and the intents have no effect on
\* the network and none on the state: a startRun or sendChat, blank or not, emits no
\* start_run and no chat event and changes no field of the session state, and no
\* other step changes one either.
C25_IntentsDeadAfterTeardown ==
    /\ [](~mounted => socketRef = "null")
    /\ [][/\ (~mounted /\ last' \in {"startRun", "sendChat"}) =>
                UNCHANGED <<session, emitted, content, sendChatRunId>>
          /\ ~mounted => UNCHANGED <<session, emitted>>]_vars

\* a startRun that was not blank, called after the cleanup (it has drawn an id for its
\* message): the stage is still prompt, the log is empty, nothing has been emitted
C25_Witness ==
    /\ ~mounted
    /\ last = "startRun"
    /\ nextId = 1
    /\ stage = "prompt"
    /\ messages = <<>>
    /\ emitted = <<>>
    /\ runId = R1

====
